---- MODULE Spec2Model ----
(***************************************************************************)
(* Model of krpc::decoder (client/cpp/include/krpc/decoder.hpp): the       *)
(* type-directed decode of objects, containers, tuples and enums, and the  *)
(* delimited-message framer.  One decode call is one action; the templates *)
(* are one recursive operator, Decode, that dispatches on a type term.     *)
(***************************************************************************)
EXTENDS Integers, Sequences, FiniteSets, TLC

VARIABLES ty, out, data, client, status, oob, hadContents

vars == <<ty, out, data, client, status, oob, hadContents>>

(* ---- bounds ---------------------------------------------------------- *)
MaxItems == 2
MaxNest == 1
MaxExtra == 1
MaxBytes == 3
MaxPrefix == 2

SeqUpTo(S, n) == UNION {[1..m -> S] : m \in 0..n}

(* ---- type terms (the template arguments) ----------------------------- *)
TU64 == [k |-> "uint64"]
TObject == [k |-> "Object"]
TEnum == [k |-> "enum"]
TVector(e) == [k |-> "vector", e |-> e]
TMap(kt, vt) == [k |-> "map", key |-> kt, val |-> vt]
TSet(e) == [k |-> "set", e |-> e]
TTuple(ts) == [k |-> "tuple", ts |-> ts]

NULL == "NULL"
Clients == {NULL, "client1"}

(* ---- variable-length integers ---------------------------------------- *)
Pow2(n) == 2^n

\* CodedInputStream::ReadVarint64 on the start of a buffer: 7 bits per byte,
\* least significant group first, the high bit marks continuation.
RECURSIVE ReadVarint(_, _, _)
ReadVarint(bytes, i, acc) ==
  IF i > Len(bytes) \/ i > 10
    THEN [ok |-> FALSE, value |-> 0, pos |-> 0]
    ELSE LET b == bytes[i]
             v == acc + (b % 128) * Pow2(7 * (i - 1))
         IN IF b < 128 THEN [ok |-> TRUE, value |-> v, pos |-> i]
                       ELSE ReadVarint(bytes, i + 1, v)

\* decode(google::protobuf::uint64& value, data, client)
decode_uint64(value, bytes, cl) ==
  LET r == ReadVarint(bytes, 1, 0)
  IN IF r.ok THEN [st |-> "ok", out |-> r.value, oob |-> FALSE]
             ELSE [st |-> "DecodeFailed", out |-> value, oob |-> FALSE]

\* CodedInputStream::ReadVarint32 read as a signed 32-bit value: the groups
\* beyond bit 31 are dropped, bit 31 is the sign (two's complement).
Group(bytes, i) == IF i <= Len(bytes) THEN bytes[i] % 128 ELSE 0

ReadVarint32(bytes) ==
  LET stops == {i \in 1..Len(bytes) : i <= 10 /\ bytes[i] < 128}
  IN IF stops = {}
       THEN [ok |-> FALSE, value |-> 0, pos |-> 0]
       ELSE LET k == CHOOSE i \in stops : \A j \in stops : i <= j
                G(i) == IF i <= k THEN Group(bytes, i) ELSE 0
                low == G(1) + G(2) * Pow2(7) + G(3) * Pow2(14) + G(4) * Pow2(21)
                top == G(5) % 16
            IN [ok |-> TRUE,
                value |-> IF top >= 8 THEN low + (top - 16) * Pow2(28)
                                      ELSE low + top * Pow2(28),
                pos |-> k]

\* decode(google::protobuf::int32& value, data, client)
decode_int32(value, bytes, cl) ==
  LET r == ReadVarint32(bytes)
  IN IF r.ok THEN [st |-> "ok", out |-> r.value, oob |-> FALSE]
             ELSE [st |-> "DecodeFailed", out |-> value, oob |-> FALSE]

KnownEnumerators == {0, 1, 3}

decode_enum_validates(value, bytes, cl) ==
  LET r == decode_int32(0, bytes, cl)
  IN IF r.st # "ok" \/ r.out \notin KnownEnumerators
       THEN [st |-> "DecodeFailed", out |-> value, oob |-> FALSE]
       ELSE [st |-> "ok", out |-> r.out, oob |-> FALSE]

\* decode_enum(T& value, data, client): value = static_cast<T>(x)
decode_enum(value, bytes, cl) ==
  LET r == decode_int32(0, bytes, cl)
  IN IF r.st # "ok"
       THEN [st |-> r.st, out |-> value, oob |-> FALSE]
       ELSE [st |-> "ok", out |-> r.out, oob |-> FALSE]

\* decode_size_and_position(data): the length prefix and the offset after it
decode_size_and_position(value, bytes) ==
  LET r == ReadVarint32(bytes)
  IN IF r.ok THEN [st |-> "ok", out |-> <<r.value, r.pos>>, oob |-> FALSE]
             ELSE [st |-> "DecodeFailed", out |-> value, oob |-> FALSE]

decode_delimited_unchecked(message, bytes, parsed) ==
  LET r == decode_size_and_position(<<0, 0>>, bytes)
  IN IF r.st # "ok"
       THEN [st |-> "DecodeFailed", out |-> message, oob |-> FALSE]
       ELSE LET size == r.out[1]
                position == r.out[2]
                avail == IF Len(bytes) - position < size
                           THEN Len(bytes) - position ELSE size
            IN IF ~parsed
                 THEN [st |-> "DecodeFailed", out |-> message, oob |-> FALSE]
                 ELSE [st |-> "ok",
                       out |-> SubSeq(bytes, position + 1, position + avail),
                       oob |-> FALSE]

\* decode_delimited(message, data): scan the prefix, then parse the payload
\* of the scanned length; parsed is the schema layer's verdict on the payload
decode_delimited(message, bytes, parsed) ==
  LET r == decode_size_and_position(<<0, 0>>, bytes)
  IN IF r.st # "ok"
       THEN [st |-> "DecodeFailed", out |-> message, oob |-> FALSE]
       ELSE LET size == r.out[1]
                position == r.out[2]
            IN IF Len(bytes) - position < size \/ ~parsed
                 THEN [st |-> "DecodeFailed", out |-> message, oob |-> FALSE]
                 ELSE [st |-> "ok",
                       out |-> SubSeq(bytes, position + 1, position + size),
                       oob |-> FALSE]

(* ---- default-constructed values -------------------------------------- *)
RECURSIVE Default(_)
Default(T) ==
  CASE T.k = "uint64" -> 0
    [] T.k = "enum" -> 0
    [] T.k = "Object" -> [client |-> NULL, id |-> 0]
    [] T.k = "vector" -> <<>>
    [] T.k = "map" -> <<>>
    [] T.k = "set" -> {}
    [] T.k = "tuple" -> [i \in 1..Len(T.ts) |-> Default(T.ts[i])]
    [] T.k = "size_and_position" -> <<0, 0>>
    [] T.k = "delimited" -> <<>>

clear_keeps(c, T) == c

\* container.clear()
clear(c, T) == Default(T)

push_front(list, value) == <<value>> \o list

\* list.push_back(value)
push_back(list, value) == Append(list, value)

map_insert(dictionary, key, value) ==
  [x \in (DOMAIN dictionary) \cup {key} |->
     IF x \in DOMAIN dictionary THEN dictionary[x] ELSE value]

\* dictionary[key] = value
map_assign(dictionary, key, value) ==
  [x \in (DOMAIN dictionary) \cup {key} |->
     IF x = key THEN value ELSE dictionary[x]]

set_replace(set, value) == {value}

\* set.insert(value)
set_insert(set, value) == set \cup {value}

\* message.items_size() / entries_size() after ParseFromString(data), whose
\* boolean result the callers drop
items_size(msg) == Len(msg.items)
entries_size(msg) == Len(msg.entries)

(* ---- the decode overloads -------------------------------------------- *)
RECURSIVE Decode(_, _, _, _, _)
RECURSIVE vector_loop(_, _, _, _, _, _)
RECURSIVE map_loop(_, _, _, _, _, _)
RECURSIVE set_loop(_, _, _, _, _, _)
RECURSIVE tuple_slots(_, _, _, _, _, _, _)

decode_Object_drops_client(object, bytes, cl) ==
  LET r == decode_uint64(0, bytes, cl)
  IN IF r.st # "ok"
       THEN [st |-> r.st, out |-> object, oob |-> FALSE]
       ELSE [st |-> "ok", out |-> [client |-> NULL, id |-> r.out], oob |-> FALSE]

\* decode(Object<T>& object, data, client)
decode_Object(object, bytes, cl) ==
  LET r == decode_uint64(0, bytes, cl)
  IN IF r.st # "ok"
       THEN [st |-> r.st, out |-> object, oob |-> FALSE]
       ELSE [st |-> "ok", out |-> [client |-> cl, id |-> r.out], oob |-> FALSE]

vector_loop(T, list, msg, i, cl, ub) ==
  IF i >= items_size(msg)
    THEN [st |-> "ok", out |-> list, oob |-> FALSE]
    ELSE LET r == Decode(T.e, Default(T.e), msg.items[i + 1], cl, ub)
         IN IF r.st # "ok"
              THEN [st |-> r.st, out |-> list, oob |-> r.oob]
              ELSE LET rest == vector_loop(T, push_back(list, r.out), msg, i + 1, cl, ub)
                   IN [rest EXCEPT !.oob = r.oob \/ rest.oob]

\* decode(std::vector<T>& list, data, client)
decode_vector(T, list, msg, cl, ub) ==
  vector_loop(T, clear(list, T), msg, 0, cl, ub)

map_loop(T, dictionary, msg, i, cl, ub) ==
  IF i >= entries_size(msg)
    THEN [st |-> "ok", out |-> dictionary, oob |-> FALSE]
    ELSE LET entry == msg.entries[i + 1]
             rk == Decode(T.key, Default(T.key), entry.key, cl, ub)
         IN IF rk.st # "ok"
              THEN [st |-> rk.st, out |-> dictionary, oob |-> rk.oob]
              ELSE LET rv == Decode(T.val, Default(T.val), entry.value, cl, ub)
                   IN IF rv.st # "ok"
                        THEN [st |-> rv.st, out |-> dictionary, oob |-> rk.oob \/ rv.oob]
                        ELSE LET rest == map_loop(T, map_assign(dictionary, rk.out, rv.out),
                                                  msg, i + 1, cl, ub)
                             IN [rest EXCEPT !.oob = rk.oob \/ rv.oob \/ rest.oob]

\* decode(std::map<K,V>& dictionary, data, client)
decode_map(T, dictionary, msg, cl, ub) ==
  map_loop(T, clear(dictionary, T), msg, 0, cl, ub)

set_loop(T, set, msg, i, cl, ub) ==
  IF i >= items_size(msg)
    THEN [st |-> "ok", out |-> set, oob |-> FALSE]
    ELSE LET r == Decode(T.e, Default(T.e), msg.items[i + 1], cl, ub)
         IN IF r.st # "ok"
              THEN [st |-> r.st, out |-> set, oob |-> r.oob]
              ELSE LET rest == set_loop(T, set_insert(set, r.out), msg, i + 1, cl, ub)
                   IN [rest EXCEPT !.oob = r.oob \/ rest.oob]

\* decode(std::set<T>& set, data, client)
decode_set(T, set, msg, cl, ub) ==
  set_loop(T, clear(set, T), msg, 0, cl, ub)

\* decode(boost::get<i>(tuple), tupleMessage.items(i), client) for i = i..N-1.
\* items(i) with i >= items_size() is an out-of-range read of the repeated
\* field: the build either aborts or hands back whatever bytes it finds (ub).
tuple_slots(T, tuple, msg, i, cl, ub, seen) ==
  IF i >= Len(T.ts)
    THEN [st |-> "ok", out |-> tuple, oob |-> seen]
    ELSE LET inRange == i < items_size(msg)
         IN IF ~inRange /\ ub.crash
              THEN [st |-> "crash", out |-> tuple, oob |-> TRUE]
              ELSE LET item == IF inRange THEN msg.items[i + 1] ELSE ub.wire
                       r == Decode(T.ts[i + 1], tuple[i + 1], item, cl, ub)
                       t2 == [tuple EXCEPT ![i + 1] = r.out]
                       s2 == seen \/ ~inRange \/ r.oob
                   IN IF r.st # "ok"
                        THEN [st |-> r.st, out |-> t2, oob |-> s2]
                        ELSE tuple_slots(T, t2, msg, i + 1, cl, ub, s2)

\* decode(boost::tuple<T0,...>& tuple, data, client), arities 1 to 5
decode_tuple(T, tuple, msg, cl, ub) ==
  tuple_slots(T, tuple, msg, 0, cl, ub, FALSE)

\* overload resolution on the target type
Decode(T, o, w, cl, ub) ==
  CASE T.k = "uint64" -> decode_uint64(o, w, cl)
    [] T.k = "Object" -> decode_Object(o, w, cl)
    [] T.k = "vector" -> decode_vector(T, o, w, cl, ub)
    [] T.k = "map" -> decode_map(T, o, w, cl, ub)
    [] T.k = "set" -> decode_set(T, o, w, cl, ub)
    [] T.k = "tuple" -> decode_tuple(T, o, w, cl, ub)

(* ---- inputs ----------------------------------------------------------- *)
U64Wires == {<<>>, <<1>>, <<172, 2>>}
ObjWires == {<<>>, <<172, 2>>}
GarbageWires == {<<>>, <<1>>}

NoUB == [crash |-> TRUE, wire |-> <<>>]
UBOutcomes == {NoUB} \cup {[crash |-> FALSE, wire |-> w] : w \in GarbageWires}

\* Enum wire values: short byte strings and four five-byte ones that reach
\* the sign bit.
EnumBytes == {1, 3, 128, 255}
LongWires == {<<255, 255, 255, 255, 15>>, <<128, 128, 128, 128, 8>>,
              <<255, 255, 255, 255, 7>>, <<128, 128, 128, 128, 128>>}
EnumWires == SeqUpTo(EnumBytes, MaxBytes) \cup LongWires
\* Framer buffers: a few prefix bytes followed by a run of zero payload bytes.
PrefixBytes == {2, 128, 172}
PayloadLengths == {0, 1, 2, 299, 300, 301}
Zeros(n) == [i \in 1..n |-> 0]
Buffers == {p \o Zeros(n) : p \in SeqUpTo(PrefixBytes, MaxPrefix), n \in PayloadLengths}

\* Dictionary entries over uint64 keys and values: two keys, two values, one
\* entry with an undecodable key and one with an undecodable value.
U64Entries ==
  [key : {<<1>>, <<2>>}, value : {<<1>>, <<172, 2>>}]
    \cup {[key |-> <<>>, value |-> <<1>>], [key |-> <<1>>, value |-> <<>>]}

IsNested(T) == T.k = "vector" /\ T.e.k = "vector"
BoundOf(T) == IF IsNested(T) THEN MaxNest ELSE MaxItems

\* Tuple envelopes: M items, at most one of them (bad) undecodable, item i
\* otherwise the one-byte varint i.
TupleItems(N) ==
  {[i \in 1..M |-> IF i = bad THEN <<>> ELSE <<i>>] :
     M \in 0..(N + MaxExtra), bad \in 0..(N + MaxExtra)}

RECURSIVE WireOf(_, _)
WireOf(T, n) ==
  CASE T.k = "uint64" -> U64Wires
    [] T.k = "Object" -> ObjWires
    [] T.k \in {"vector", "set"} ->
         [ok : BOOLEAN, items : SeqUpTo(WireOf(T.e, n), n)]
    [] T.k = "map" ->
         [ok : BOOLEAN,
          entries : SeqUpTo(IF T.key.k = "uint64" /\ T.val.k = "uint64"
                              THEN U64Entries
                              ELSE [key : WireOf(T.key, n), value : WireOf(T.val, n)], n)]
    [] T.k = "tuple" -> [ok : BOOLEAN, items : TupleItems(Len(T.ts))]

Wires(T) == WireOf(T, BoundOf(T))

EmptyWire(T) ==
  CASE T.k \in {"vector", "set", "tuple"} -> [ok |-> TRUE, items |-> <<>>]
    [] T.k = "map" -> [ok |-> TRUE, entries |-> <<>>]
    [] OTHER -> <<>>

ContainerTypes == {TVector(TU64), TMap(TU64, TU64), TSet(TU64)}
TupleTypes == {TTuple([i \in 1..N |-> TU64]) : N \in 1..5}
ObjectTypes == {TObject, TVector(TObject), TMap(TObject, TObject), TSet(TObject),
                TTuple(<<TObject, TObject>>), TVector(TVector(TObject))}

(* ---- state machine ---------------------------------------------------- *)
InitOf(Ts) ==
  /\ ty \in Ts
  /\ out = Default(ty)
  /\ data = EmptyWire(ty)
  /\ client = NULL
  /\ status = "none"
  /\ oob = FALSE
  /\ hadContents = FALSE

Call(w, cl, r) ==
  /\ data' = w
  /\ client' = cl
  /\ out' = r.out
  /\ status' = r.st
  /\ oob' = r.oob
  /\ hadContents' = (out # Default(ty))
  /\ UNCHANGED ty

DecodeObject ==
  /\ ty.k = "Object"
  /\ \E w \in Wires(ty), cl \in Clients :
       Call(w, cl, decode_Object(out, w, cl))

DecodeVector ==
  /\ ty.k = "vector"
  /\ \E w \in Wires(ty), cl \in Clients :
       Call(w, cl, decode_vector(ty, out, w, cl, NoUB))

DecodeMap ==
  /\ ty.k = "map"
  /\ \E w \in Wires(ty), cl \in Clients :
       Call(w, cl, decode_map(ty, out, w, cl, NoUB))

DecodeSet ==
  /\ ty.k = "set"
  /\ \E w \in Wires(ty), cl \in Clients :
       Call(w, cl, decode_set(ty, out, w, cl, NoUB))

DecodeTuple ==
  /\ ty.k = "tuple"
  /\ \E w \in Wires(ty), cl \in Clients :
       \E ub \in (IF Len(w.items) < Len(ty.ts) THEN UBOutcomes ELSE {NoUB}) :
         Call(w, cl, decode_tuple(ty, out, w, cl, ub))

DecodeEnum ==
  /\ ty.k = "enum"
  /\ \E w \in EnumWires, cl \in Clients :
       Call(w, cl, decode_enum(out, w, cl))

DecodeSizeAndPosition ==
  /\ ty.k = "size_and_position"
  /\ \E w \in Buffers, parsed \in BOOLEAN :
       Call([bytes |-> w, ok |-> parsed], NULL, decode_size_and_position(out, w))

DecodeDelimited ==
  /\ ty.k = "delimited"
  /\ \E w \in Buffers, parsed \in BOOLEAN :
       Call([bytes |-> w, ok |-> parsed], NULL, decode_delimited(out, w, parsed))

Init == InitOf(ContainerTypes)
Next == DecodeVector \/ DecodeMap \/ DecodeSet
Spec == Init /\ [][Next]_vars

InitTuple == InitOf(TupleTypes)
NextTuple == DecodeTuple
SpecTuple == InitTuple /\ [][NextTuple]_vars

InitObject == InitOf(ObjectTypes)
NextObject == DecodeObject \/ DecodeVector \/ DecodeMap \/ DecodeSet \/ DecodeTuple
SpecObject == InitObject /\ [][NextObject]_vars

InitEnum == InitOf({TEnum})
NextEnum == DecodeEnum
SpecEnum == InitEnum /\ [][NextEnum]_vars

InitFramer ==
  /\ ty \in {[k |-> "size_and_position"], [k |-> "delimited"]}
  /\ out = Default(ty)
  /\ data = [bytes |-> <<>>, ok |-> TRUE]
  /\ client = NULL
  /\ status = "none"
  /\ oob = FALSE
  /\ hadContents = FALSE
NextFramer == DecodeSizeAndPosition \/ DecodeDelimited
SpecFramer == InitFramer /\ [][NextFramer]_vars

(* ---- reference values used by the properties ------------------------- *)
\* The unsigned value of a complete varint, summed group by group.
RECURSIVE VarintSum(_, _)
VarintSum(bytes, k) ==
  IF k = 0 THEN 0 ELSE VarintSum(bytes, k - 1) + (bytes[k] % 128) * Pow2(7 * (k - 1))

\* Length of the varint at the start of bytes, 0 when it does not terminate.
VarintLen(bytes) ==
  LET ends == {k \in 1..Len(bytes) : bytes[k] < 128 /\ \A j \in 1..(k - 1) : bytes[j] >= 128}
  IN IF ends = {} THEN 0 ELSE CHOOSE k \in ends : TRUE

Decodes(w) == VarintLen(w) > 0
Val(w) == VarintSum(w, VarintLen(w))

Called == status # "none"
Items == data.items
Entries == data.entries

(* ---- C1 --------------------------------------------------------------- *)
\* C1: a tuple decode of arity N on an envelope of M # N items fails with
\* DecodeFailed and never reads an item index the envelope does not hold.
C1_ArityMismatchFails ==
  (ty.k = "tuple" /\ Called /\ Len(Items) # Len(ty.ts))
    => (status = "DecodeFailed" /\ ~oob)

(* ---- C2 --------------------------------------------------------------- *)
\* C2: when a container decode fails, the caller's container holds no
\* partially populated result: it is as it was before the call, or empty.
C2_NoPartialResult ==
  [][status' = "DecodeFailed" => (out' = out \/ out' = Default(ty))]_vars

(* ---- C3 --------------------------------------------------------------- *)
\* C3: a container decode whose envelope failed to parse fails with
\* DecodeFailed.
C3_ParseFailureFails ==
  (Called /\ ~data.ok) => status = "DecodeFailed"

(* ---- C4 --------------------------------------------------------------- *)
\* C4: after a successful sequence, mapping or set decode the container holds
\* exactly the elements decoded from the envelope, whatever it held before;
\* an empty envelope leaves it empty.
C4_NotAdditive ==
  (Called /\ status = "ok") =>
    CASE ty.k = "vector" ->
           /\ Len(out) = Len(Items)
           /\ {out[i] : i \in 1..Len(out)} = {Val(Items[i]) : i \in 1..Len(Items)}
      [] ty.k = "set" ->
           out = {Val(Items[i]) : i \in 1..Len(Items)}
      [] ty.k = "map" ->
           /\ DOMAIN out = {Val(Entries[i].key) : i \in 1..Len(Entries)}
           /\ \A x \in DOMAIN out :
                \E i \in 1..Len(Entries) :
                  Val(Entries[i].key) = x /\ Val(Entries[i].value) = out[x]
           /\ (Entries = <<>> => out = Default(ty))

C4_Witness ==
  /\ status = "ok"
  /\ hadContents
  /\ \/ ty.k \in {"vector", "set"} /\ Items = <<>> /\ out = Default(ty)
     \/ ty.k = "map" /\ Len(Entries) = 1 /\ DOMAIN out = {2}

(* ---- C5 --------------------------------------------------------------- *)
\* C5: a List envelope of n decodable items decodes to n elements, element i
\* being the decoded value of item i.
C5_SequenceOrder ==
  (ty.k = "vector" /\ Called /\ \A i \in 1..Len(Items) : Decodes(Items[i]))
    => /\ status = "ok"
       /\ Len(out) = Len(Items)
       /\ \A i \in 1..Len(Items) : out[i] = Val(Items[i])

C5_Witness ==
  /\ ty.k = "vector"
  /\ status = "ok"
  /\ Len(out) >= 2
  /\ out[1] > out[2]

(* ---- C6 --------------------------------------------------------------- *)
\* C6: a Dictionary envelope of decodable entries decodes to a map over
\* exactly the decoded keys, each bound to the value of the last entry that
\* carries it.
LastEntry(x) ==
  CHOOSE i \in 1..Len(Entries) :
    /\ Val(Entries[i].key) = x
    /\ \A j \in (i + 1)..Len(Entries) : Val(Entries[j].key) # x

C6_LastKeyWins ==
  (ty.k = "map" /\ Called
     /\ \A i \in 1..Len(Entries) : Decodes(Entries[i].key) /\ Decodes(Entries[i].value))
    => /\ status = "ok"
       /\ DOMAIN out = {Val(Entries[i].key) : i \in 1..Len(Entries)}
       /\ \A x \in DOMAIN out : out[x] = Val(Entries[LastEntry(x)].value)

C6_Witness ==
  /\ ty.k = "map"
  /\ status = "ok"
  /\ Len(Entries) = 2
  /\ Entries[1].key = Entries[2].key
  /\ Entries[1].value # Entries[2].value
  /\ Cardinality(DOMAIN out) = 1

(* ---- C7 --------------------------------------------------------------- *)
\* C7: a Set envelope of decodable items decodes to the set of the decoded
\* values, and every reordering of the items decodes to the same set.
Reorderings(items) ==
  {[i \in 1..Len(items) |-> items[p[i]]] :
     p \in {q \in [1..Len(items) -> 1..Len(items)] :
              \A a, b \in 1..Len(items) : a # b => q[a] # q[b]}}

C7_SetMembership ==
  (ty.k = "set" /\ Called /\ \A i \in 1..Len(Items) : Decodes(Items[i]))
    => /\ status = "ok"
       /\ out = {Val(Items[i]) : i \in 1..Len(Items)}
       /\ \A r \in Reorderings(Items) :
            decode_set(ty, Default(ty), [data EXCEPT !.items = r], client, NoUB).out = out

C7_Witness ==
  /\ ty.k = "set"
  /\ status = "ok"
  /\ Len(Items) >= 2
  /\ Cardinality(out) < Len(Items)

(* ---- C8 --------------------------------------------------------------- *)
\* The value a wire value stands for under a type and a context.
RECURSIVE Expected(_, _, _)
Expected(T, w, cl) ==
  CASE T.k = "uint64" -> Val(w)
    [] T.k = "Object" -> [client |-> cl, id |-> Val(w)]
    [] T.k = "vector" -> [i \in 1..Len(w.items) |-> Expected(T.e, w.items[i], cl)]
    [] T.k = "set" -> {Expected(T.e, w.items[i], cl) : i \in 1..Len(w.items)}
    [] T.k = "tuple" -> [i \in 1..Len(T.ts) |-> Expected(T.ts[i], w.items[i], cl)]
    [] T.k = "map" ->
         LET keys == {Expected(T.key, w.entries[i].key, cl) : i \in 1..Len(w.entries)}
             last(x) == CHOOSE i \in 1..Len(w.entries) :
                          /\ Expected(T.key, w.entries[i].key, cl) = x
                          /\ \A j \in (i + 1)..Len(w.entries) :
                               Expected(T.key, w.entries[j].key, cl) # x
         IN [x \in keys |-> Expected(T.val, w.entries[last(x)].value, cl)]

\* The object references inside a decoded value.
RECURSIVE ObjectsIn(_, _)
ObjectsIn(T, v) ==
  CASE T.k = "Object" -> {v}
    [] T.k = "vector" -> UNION {ObjectsIn(T.e, v[i]) : i \in 1..Len(v)}
    [] T.k = "set" -> UNION {ObjectsIn(T.e, x) : x \in v}
    [] T.k = "tuple" -> UNION {ObjectsIn(T.ts[i], v[i]) : i \in 1..Len(T.ts)}
    [] T.k = "map" ->
         UNION {ObjectsIn(T.key, x) \cup ObjectsIn(T.val, v[x]) : x \in DOMAIN v}
    [] OTHER -> {}

\* C8: every object reference a successful decode produces, at any depth,
\* carries the context of the top-level call (NULL included) and the decoded
\* unsigned value of its own wire value as identifier.
C8_ContextThreaded ==
  (Called /\ status = "ok" /\ ~oob)
    => /\ \A o \in ObjectsIn(ty, out) : o.client = client
       /\ out = Expected(ty, data, client)

C8_Witness ==
  /\ IsNested(ty)
  /\ status = "ok"
  /\ client # NULL
  /\ Len(out) = 1
  /\ out[1] = <<[client |-> client, id |-> 300]>>

(* ---- C9 --------------------------------------------------------------- *)
\* C9: enum decode succeeds exactly when the signed 32-bit decode of the wire
\* value succeeds, known enumerator or not, and yields that integer.
C9_EnumIsInt32 ==
  (ty.k = "enum" /\ Called)
    => /\ status = decode_int32(0, data, client).st
       /\ status = "ok" => out = decode_int32(0, data, client).out
       /\ Decodes(data) => status = "ok"
       /\ (status = "ok" /\ VarintLen(data) <= 4) => out = Val(data)

C9_Witness ==
  /\ ty.k = "enum"
  /\ status = "ok"
  /\ out \notin KnownEnumerators
  /\ out < 0

(* ---- C10 -------------------------------------------------------------- *)
\* C10: the scan of a buffer that starts with a complete k-byte varint L
\* returns (L, k) and fails when the prefix does not terminate; delimited
\* decode fails when fewer than L bytes follow the prefix and succeeds when
\* at least L follow and the payload parses.
C10_Framing ==
  Called =>
    LET k == VarintLen(data.bytes)
        L == VarintSum(data.bytes, k)
    IN CASE ty.k = "size_and_position" ->
              IF k > 0 THEN status = "ok" /\ out = <<L, k>>
                       ELSE status = "DecodeFailed"
         [] ty.k = "delimited" ->
              /\ status = "ok" => (k > 0 /\ Len(data.bytes) - k >= L)
              /\ (k = 0 \/ Len(data.bytes) - k < L) => status = "DecodeFailed"
              /\ (k > 0 /\ Len(data.bytes) - k >= L /\ data.ok) =>
                   (status = "ok" /\ Len(out) = L)
         [] OTHER -> TRUE

C10_Witness ==
  /\ ty.k = "delimited"
  /\ status = "ok"
  /\ data.bytes = <<172, 2>> \o Zeros(300)
  /\ Len(out) = 300

====
